---- MODULE Spec2Model ----
(***************************************************************************)
(* Model of src/tensor_ops/conv2d/conv2d.cu: the four CUDA kernels that    *)
(* unfold images into patches and transpose / reduce filters for conv2d.   *)
(*                                                                         *)
(* One launch of one kernel is modelled: a grid of threads, each of which  *)
(* runs the kernel body once.  A state holds the geometry `op`, the source *)
(* and destination buffers of the launched kernel, the set of threads that *)
(* have not run yet and, for every destination element, which threads      *)
(* wrote and read it.  Floats are modelled by integers (the kernels only   *)
(* copy values, and add them in a fixed serial order).                     *)
(*                                                                         *)
(* Machine words are scaled: `unsigned int` (32 bits on the device) is     *)
(* UIntBits wide and `size_t` (64 bits) is SizeBits wide, so that the      *)
(* wrap-around of a thread index is within reach of explicit enumeration.  *)
(***************************************************************************)
EXTENDS Integers, FiniteSets, Sequences, TLC

-----------------------------------------------------------------------------
(* Bounds of the model *)

UIntBits == 7
SizeBits == 14
MaxStride == 2
MaxPadding == 2
MaxKernel == 2
MaxBatch == 2
MaxChan == 2
MaxDim == 3
MaxUnits == 24
MaxCalls == 2
MaxRaceUnits == 4
BlockDim == 3

-----------------------------------------------------------------------------
(* Machine arithmetic *)

UIntMod == 2 ^ UIntBits
SizeMod == 2 ^ SizeBits
IntMax == 2 ^ (UIntBits - 1) - 1

\* conversion to unsigned int
UInt(x) == x % UIntMod

\* size_t arithmetic: the value of an expression computed in size_t
SizeT(x) == x % SizeMod

\* `return` before the write: thread has no source coordinate
Skip == -1

-----------------------------------------------------------------------------
(* Conv2DOp *)

Conv2DOp(stride, padding, kernel, batch, chan_in, chan_out, h_in, h_out, w_in, w_out) ==
    [stride |-> stride, padding |-> padding, kernel |-> kernel, batch |-> batch,
     chan_in |-> chan_in, chan_out |-> chan_out,
     h_in |-> h_in, h_out |-> h_out, w_in |-> w_in, w_out |-> w_out]

\* the convolution output-size formula the caller uses to fill h_out / w_out
OutSize(in, kernel, stride, padding) == (in + 2 * padding - kernel) \div stride + 1

ValidOp(stride, padding, kernel, batch, chan_in, chan_out, h_in, w_in) ==
    Conv2DOp(stride, padding, kernel, batch, chan_in, chan_out,
             h_in, OutSize(h_in, kernel, stride, padding),
             w_in, OutSize(w_in, kernel, stride, padding))

-----------------------------------------------------------------------------
(* Element counts *)

ImageNumel(op) == SizeT(op.batch * op.chan_in * op.h_in * op.w_in)
ImageOutNumel(op) == SizeT(op.batch * op.chan_out * op.h_out * op.w_out)
InputPatchesNumel(op) ==
    SizeT(op.batch * op.chan_in * op.kernel * op.kernel * op.h_out * op.w_out)
OutputPatchesNumel(op) ==
    SizeT(op.batch * op.chan_out * op.kernel * op.kernel * op.h_in * op.w_in)
FiltersNumel(op) == SizeT(op.chan_in * op.chan_out * op.kernel * op.kernel)
FiltersTrNumel(op) == SizeT(op.batch * FiltersNumel(op))

\* faulty variant: the thread's position inside its block is left out
ThreadIndexOfBlock(blockIdx, blockDim, threadIdx) == UInt(blockIdx * blockDim)

\* blockIdx.x * blockDim.x + threadIdx.x, stored in an unsigned int
ThreadIndex(blockIdx, blockDim, threadIdx) == UInt(blockIdx * blockDim + threadIdx)

-----------------------------------------------------------------------------
(* unfold_input_into_patches *)

\* patches shape is (B, C, K, K, h_out, w_out): idx is decomposed innermost first
UnfoldInputCoords(op, i) ==
    LET ow   == i % op.w_out
        idx1 == UInt(i \div op.w_out)
        oh   == idx1 % op.h_out
        idx2 == UInt(idx1 \div op.h_out)
        k2   == idx2 % op.kernel
        idx3 == UInt(idx2 \div op.kernel)
        k1   == idx3 % op.kernel
        idx4 == UInt(idx3 \div op.kernel)
        c    == idx4 % op.chan_in
        idx5 == UInt(idx4 \div op.chan_in)
        b    == idx5 % op.batch
    IN  [b |-> b, c |-> c, k1 |-> k1, k2 |-> k2, oh |-> oh, ow |-> ow]

\* faulty variant: a row above the image is clamped to row 0 instead of skipped
InputYClamped(op, oh, k1) ==
    LET y_plus_p == SizeT(oh * op.stride + k1)
    IN  IF y_plus_p < op.padding THEN 0
        ELSE IF y_plus_p - op.padding >= op.h_in THEN Skip
        ELSE y_plus_p - op.padding

\* the row of the image the tap (oh, k1) reads, or Skip
InputY(op, oh, k1) ==
    LET y_plus_p == SizeT(oh * op.stride + k1)
    IN  IF y_plus_p < op.padding THEN Skip
        ELSE IF y_plus_p - op.padding >= op.h_in THEN Skip
        ELSE y_plus_p - op.padding

\* faulty variant: a column left of the image is clamped to column 0 instead of skipped
InputXClamped(op, ow, k2) ==
    LET x_plus_p == SizeT(ow * op.stride + k2)
    IN  IF x_plus_p < op.padding THEN 0
        ELSE IF x_plus_p - op.padding >= op.w_in THEN Skip
        ELSE x_plus_p - op.padding

\* faulty variant: the output column is not scaled by the stride
InputXUnstrided(op, ow, k2) ==
    LET x_plus_p == SizeT(ow + k2)
    IN  IF x_plus_p < op.padding THEN Skip
        ELSE IF x_plus_p - op.padding >= op.w_in THEN Skip
        ELSE x_plus_p - op.padding

\* the column of the image the tap (ow, k2) reads, or Skip
InputX(op, ow, k2) ==
    LET x_plus_p == SizeT(ow * op.stride + k2)
    IN  IF x_plus_p < op.padding THEN Skip
        ELSE IF x_plus_p - op.padding >= op.w_in THEN Skip
        ELSE x_plus_p - op.padding

\* faulty variant: the thread index is not compared with patches_numel
UnfoldInputSourceUnguarded(op, i) ==
    LET q == UnfoldInputCoords(op, i)
        y == InputY(op, q.oh, q.k1)
        x == InputX(op, q.ow, q.k2)
    IN  IF y = Skip \/ x = Skip THEN Skip
        ELSE SizeT(q.b * (op.chan_in * op.h_in * op.w_in)
                   + q.c * (op.h_in * op.w_in) + y * op.w_in + x)

\* faulty variant: source coordinates outside the image are clamped to its border
UnfoldInputSourceClamped(op, i) ==
    IF i >= InputPatchesNumel(op) THEN Skip
    ELSE LET q == UnfoldInputCoords(op, i)
             yy == q.oh * op.stride + q.k1 - op.padding
             xx == q.ow * op.stride + q.k2 - op.padding
             y == IF yy < 0 THEN 0 ELSE IF yy >= op.h_in THEN op.h_in - 1 ELSE yy
             x == IF xx < 0 THEN 0 ELSE IF xx >= op.w_in THEN op.w_in - 1 ELSE xx
         IN  SizeT(q.b * (op.chan_in * op.h_in * op.w_in)
                   + q.c * (op.h_in * op.w_in) + y * op.w_in + x)

\* i_image of the thread with index i, or Skip when the thread returns early
UnfoldInputSource(op, i) ==
    IF i >= InputPatchesNumel(op) THEN Skip
    ELSE LET q == UnfoldInputCoords(op, i)
             y == InputY(op, q.oh, q.k1)
             x == InputX(op, q.ow, q.k2)
         IN  IF y = Skip \/ x = Skip THEN Skip
             ELSE SizeT(q.b * (op.chan_in * op.h_in * op.w_in)
                        + q.c * (op.h_in * op.w_in) + y * op.w_in + x)

-----------------------------------------------------------------------------
(* unfold_output_into_patches *)

\* patches shape is (B, O, K, K, h_in, w_in)
UnfoldOutputCoords(op, i) ==
    LET x    == i % op.w_in
        idx1 == UInt(i \div op.w_in)
        y    == idx1 % op.h_in
        idx2 == UInt(idx1 \div op.h_in)
        k2   == idx2 % op.kernel
        idx3 == UInt(idx2 \div op.kernel)
        k1   == idx3 % op.kernel
        idx4 == UInt(idx3 \div op.kernel)
        o    == idx4 % op.chan_out
        idx5 == UInt(idx4 \div op.chan_out)
        b    == idx5 % op.batch
    IN  [b |-> b, o |-> o, k1 |-> k1, k2 |-> k2, y |-> y, x |-> x]

\* faulty variant: a misaligned tap is rounded down instead of skipped
OutputOhRounded(op, y, k1) ==
    LET oh0 == SizeT(y + op.padding)
    IN  IF oh0 < k1 THEN Skip
        ELSE IF (oh0 - k1) \div op.stride >= op.h_out THEN Skip
        ELSE (oh0 - k1) \div op.stride

\* the output row whose window has tap k1 on image row y, or Skip
OutputOh(op, y, k1) ==
    LET oh0 == SizeT(y + op.padding)
    IN  IF oh0 < k1 THEN Skip
        ELSE IF (oh0 - k1) % op.stride # 0 THEN Skip
        ELSE IF (oh0 - k1) \div op.stride >= op.h_out THEN Skip
        ELSE (oh0 - k1) \div op.stride

\* faulty variant: the padding is not added to the image column
OutputOwNoPadding(op, x, k2) ==
    LET ow0 == SizeT(x)
    IN  IF ow0 < k2 THEN Skip
        ELSE IF (ow0 - k2) % op.stride # 0 THEN Skip
        ELSE IF (ow0 - k2) \div op.stride >= op.w_out THEN Skip
        ELSE (ow0 - k2) \div op.stride

\* the output column whose window has tap k2 on image column x, or Skip
OutputOw(op, x, k2) ==
    LET ow0 == SizeT(x + op.padding)
    IN  IF ow0 < k2 THEN Skip
        ELSE IF (ow0 - k2) % op.stride # 0 THEN Skip
        ELSE IF (ow0 - k2) \div op.stride >= op.w_out THEN Skip
        ELSE (ow0 - k2) \div op.stride

\* image_i of the thread with index i, or Skip when the thread returns early
UnfoldOutputSource(op, i) ==
    IF i >= OutputPatchesNumel(op) THEN Skip
    ELSE LET q  == UnfoldOutputCoords(op, i)
             oh == OutputOh(op, q.y, q.k1)
             ow == OutputOw(op, q.x, q.k2)
         IN  IF oh = Skip \/ ow = Skip THEN Skip
             ELSE SizeT(q.b * (op.chan_out * op.h_out * op.w_out)
                        + q.o * (op.h_out * op.w_out) + oh * op.w_out + ow)

-----------------------------------------------------------------------------
(* transpose_and_broadcast_filters, sum_transposed_filters *)

\* filters shape is (O, C, K, K)
FilterCoords(op, i) ==
    LET k2   == i % op.kernel
        idx1 == UInt(i \div op.kernel)
        k1   == idx1 % op.kernel
        idx2 == UInt(idx1 \div op.kernel)
        c    == idx2 % op.chan_in
        idx3 == UInt(idx2 \div op.chan_in)
        o    == idx3 % op.chan_out
    IN  [o |-> o, c |-> c, k1 |-> k1, k2 |-> k2]

\* faulty variant: the channel axes are not swapped
TransposedIndexUnswapped(op, i) ==
    LET q == FilterCoords(op, i)
    IN  SizeT(q.o * (op.chan_in * op.kernel * op.kernel)
              + q.c * (op.kernel * op.kernel) + q.k1 * op.kernel + q.k2)

\* offset of element i of filters inside one (C, O, K, K) slice of filters_tr
TransposedIndex(op, i) ==
    LET q == FilterCoords(op, i)
    IN  SizeT(q.c * (op.chan_out * op.kernel * op.kernel)
              + q.o * (op.kernel * op.kernel) + q.k1 * op.kernel + q.k2)

\* the values `b` takes in `for (auto b = 0; b < op.batch; b++)`.  b is an int:
\* incrementing it past IntMax is undefined.  The build either keeps the
\* counter in a wide register (wide) or wraps it to a negative number, which
\* compares above op.batch as a size_t and ends the loop.
BatchLoop(op, wide) ==
    IF op.batch <= IntMax + 1 \/ wide THEN 0 .. (op.batch - 1) ELSE 0 .. IntMax

LoopOutcomes(op) == IF op.batch <= IntMax + 1 THEN {TRUE} ELSE BOOLEAN

\* b * numel + i_tr
BatchOffset(op, b, i_tr) == SizeT(b * FiltersNumel(op) + i_tr)

-----------------------------------------------------------------------------
(* Buffers, launches *)

Kernels == {"unfold_input_into_patches", "unfold_output_into_patches",
            "transpose_and_broadcast_filters", "sum_transposed_filters"}

\* element count of the kernel's const float * argument
SrcNumel(k, op) ==
    CASE k = "unfold_input_into_patches" -> ImageNumel(op)
      [] k = "unfold_output_into_patches" -> ImageOutNumel(op)
      [] k = "transpose_and_broadcast_filters" -> FiltersNumel(op)
      [] k = "sum_transposed_filters" -> FiltersTrNumel(op)

\* element count of the kernel's float * argument
DstNumel(k, op) ==
    CASE k = "unfold_input_into_patches" -> InputPatchesNumel(op)
      [] k = "unfold_output_into_patches" -> OutputPatchesNumel(op)
      [] k = "transpose_and_broadcast_filters" -> FiltersTrNumel(op)
      [] k = "sum_transposed_filters" -> FiltersNumel(op)

\* the bound each kernel compares its thread index with (patches_numel / numel)
Units(k, op) ==
    CASE k = "unfold_input_into_patches" -> InputPatchesNumel(op)
      [] k = "unfold_output_into_patches" -> OutputPatchesNumel(op)
      [] k = "transpose_and_broadcast_filters" -> FiltersNumel(op)
      [] k = "sum_transposed_filters" -> FiltersNumel(op)

\* the grid covers the units with whole blocks of BlockDim threads
GridDim(k, op) == (Units(k, op) + BlockDim - 1) \div BlockDim
Threads(k, op) == 0 .. (GridDim(k, op) * BlockDim - 1)

\* a load; one outside the buffer yields the arbitrary value g
Load(buf, j, g) == IF j \in DOMAIN buf THEN buf[j] ELSE g

\* stores of one thread of each kernel: a set of <<destination index, value>>
UnfoldInputStores(op, image, i, g) ==
    LET i_image == UnfoldInputSource(op, i)
    IN  IF i_image = Skip THEN {} ELSE {<<i, Load(image, i_image, g)>>}

UnfoldOutputStores(op, image_out, i, g) ==
    LET image_i == UnfoldOutputSource(op, i)
    IN  IF image_i = Skip THEN {} ELSE {<<i, Load(image_out, image_i, g)>>}

TransposeStores(op, filters, i, wide, g) ==
    IF i >= FiltersNumel(op) THEN {}
    ELSE {<<BatchOffset(op, b, TransposedIndex(op, i)), Load(filters, i, g)>> :
             b \in BatchLoop(op, wide)}

\* source indices one thread of sum_transposed_filters adds up
SumSources(op, i, wide) ==
    IF i >= FiltersNumel(op) THEN {}
    ELSE {BatchOffset(op, b, TransposedIndex(op, i)) : b \in BatchLoop(op, wide)}

\* tmp after the iterations lo .. hi of the batch loop, starting from 0.0
RECURSIVE SumBatches(_, _, _, _, _, _)
SumBatches(op, filters_tr, i_tr, lo, hi, g) ==
    IF lo > hi THEN 0
    ELSE IF lo = hi THEN Load(filters_tr, BatchOffset(op, lo, i_tr), g)
    ELSE LET mid == (lo + hi) \div 2
         IN  SumBatches(op, filters_tr, i_tr, lo, mid, g)
               + SumBatches(op, filters_tr, i_tr, mid + 1, hi, g)

\* tmp of one thread of sum_transposed_filters
SumTmp(op, filters_tr, i, wide, g) ==
    SumBatches(op, filters_tr, TransposedIndex(op, i),
               0, Cardinality(BatchLoop(op, wide)) - 1, g)

\* faulty variant: filters[i] = tmp
AccumulateOverwrite(old, tmp) == tmp

\* filters[i] += tmp
Accumulate(old, tmp) == old + tmp

\* the buffer after a set of stores
Store(buf, stores) ==
    [j \in DOMAIN buf |->
        IF \E s \in stores : s[1] = j
        THEN (CHOOSE s \in stores : s[1] = j)[2]
        ELSE buf[j]]

Indices(stores) == {s[1] : s \in stores}

-----------------------------------------------------------------------------
(* State *)

VARIABLES op, kernel, src, dst, pre, dst0, calls, sched,
          pending, inflight, units, active, writers, readers, oob

vars == <<op, kernel, src, dst, pre, dst0, calls, sched,
          pending, inflight, units, active, writers, readers, oob>>

Done == pending = {} /\ inflight = {}

\* threads that may run next: any, or the lowest one that has not run
Eligible ==
    IF sched = "any" THEN pending
    ELSE IF inflight # {} THEN {}
    ELSE {t \in pending : (t - 1) \notin pending}

\* arbitrary values a load outside its buffer may yield
Garbage(buf, js) == IF js \subseteq DOMAIN buf THEN {0} ELSE {0, 1}

\* thread t, with index i, completes after the given accesses
Retire(t, i, srcReads, dstReads, stores) ==
    /\ dst' = Store(dst, stores)
    /\ writers' = [j \in DOMAIN writers |->
                      IF j \in Indices(stores) THEN writers[j] \cup {t} ELSE writers[j]]
    /\ readers' = [j \in DOMAIN readers |->
                      IF j \in dstReads THEN readers[j] \cup {t} ELSE readers[j]]
    /\ oob' = oob \cup {<<"read src", j>> : j \in srcReads \ DOMAIN src}
                  \cup {<<"read dst", j>> : j \in dstReads \ DOMAIN dst}
                  \cup {<<"write dst", j>> : j \in Indices(stores) \ DOMAIN dst}
    /\ units' = units \cup {i}
    /\ active' = IF srcReads \cup dstReads \cup Indices(stores) = {}
                 THEN active ELSE active \cup {t}
    /\ UNCHANGED <<op, kernel, src, pre, dst0, calls, sched>>

Index(t) == ThreadIndex(t \div BlockDim, BlockDim, t % BlockDim)

-----------------------------------------------------------------------------
(* The kernels: one thread runs its body *)

unfold_input_into_patches(t) ==
    /\ kernel = "unfold_input_into_patches"
    /\ t \in Eligible
    /\ LET i == Index(t)
           i_image == UnfoldInputSource(op, i)
           reads == IF i_image = Skip THEN {} ELSE {i_image}
       IN  \E g \in Garbage(src, reads) :
               Retire(t, i, reads, {}, UnfoldInputStores(op, src, i, g))
    /\ pending' = pending \ {t}
    /\ UNCHANGED inflight

unfold_output_into_patches(t) ==
    /\ kernel = "unfold_output_into_patches"
    /\ t \in Eligible
    /\ LET i == Index(t)
           image_i == UnfoldOutputSource(op, i)
           reads == IF image_i = Skip THEN {} ELSE {image_i}
       IN  \E g \in Garbage(src, reads) :
               Retire(t, i, reads, {}, UnfoldOutputStores(op, src, i, g))
    /\ pending' = pending \ {t}
    /\ UNCHANGED inflight

transpose_and_broadcast_filters(t) ==
    /\ kernel = "transpose_and_broadcast_filters"
    /\ t \in Eligible
    /\ LET i == Index(t)
           reads == IF i >= FiltersNumel(op) THEN {} ELSE {i}
       IN  \E wide \in LoopOutcomes(op), g \in Garbage(src, reads) :
               Retire(t, i, reads, {}, TransposeStores(op, src, i, wide, g))
    /\ pending' = pending \ {t}
    /\ UNCHANGED inflight

\* sum_transposed_filters up to the load of filters[i] in `filters[i] += tmp`
sum_transposed_filters_load(t) ==
    /\ kernel = "sum_transposed_filters"
    /\ t \in Eligible
    /\ LET i == Index(t)
       IN  IF i >= FiltersNumel(op)
           THEN /\ Retire(t, i, {}, {}, {})
                /\ UNCHANGED inflight
           ELSE \E wide \in LoopOutcomes(op) :
                \E g \in Garbage(src, SumSources(op, i, wide)), h \in Garbage(dst, {i}) :
                    /\ Retire(t, i, SumSources(op, i, wide), {i}, {})
                    /\ inflight' = inflight \cup
                           {<<t, i, Accumulate(Load(dst, i, h), SumTmp(op, src, i, wide, g))>>}
    /\ pending' = pending \ {t}

\* the store of `filters[i] += tmp`
sum_transposed_filters_store(f) ==
    /\ f \in inflight
    /\ Retire(f[1], f[2], {}, {}, {<<f[2], f[3]>>})
    /\ inflight' = inflight \ {f}
    /\ UNCHANGED pending

\* the caller launches the reducer again on the same buffers, to accumulate
\* (the other kernels' destinations are rebuilt by the caller before each launch)
Launch ==
    /\ kernel = "sum_transposed_filters"
    /\ Done
    /\ calls < MaxCalls
    /\ calls' = calls + 1
    /\ pre' = dst
    /\ pending' = Threads(kernel, op)
    /\ units' = {}
    /\ active' = {}
    /\ writers' = [j \in DOMAIN dst |-> {}]
    /\ readers' = [j \in DOMAIN dst |-> {}]
    /\ UNCHANGED <<op, kernel, src, dst, dst0, sched, inflight, oob>>

Next ==
    \/ \E t \in Eligible : unfold_input_into_patches(t)
    \/ \E t \in Eligible : unfold_output_into_patches(t)
    \/ \E t \in Eligible : transpose_and_broadcast_filters(t)
    \/ \E t \in Eligible : sum_transposed_filters_load(t)
    \/ \E f \in inflight : sum_transposed_filters_store(f)
    \/ Launch

-----------------------------------------------------------------------------
(* Initial states: a geometry, a kernel, its buffers, the first launch *)

Ramp(n) == [j \in 0 .. (n - 1) |-> j + 1]
Zeros(n) == [j \in 0 .. (n - 1) |-> 0]
Dirty(n) == [j \in 0 .. (n - 1) |-> 0 - (j + 1)]

\* the stores of thread t run alone on destination d (no undefined outcome)
ThreadStores(k, o, s, d, t) ==
    LET i == Index(t)
    IN  CASE k = "unfold_input_into_patches" -> UnfoldInputStores(o, s, i, 0)
          [] k = "unfold_output_into_patches" -> UnfoldOutputStores(o, s, i, 0)
          [] k = "transpose_and_broadcast_filters" -> TransposeStores(o, s, i, TRUE, 0)
          [] k = "sum_transposed_filters" ->
                 IF i >= FiltersNumel(o) THEN {}
                 ELSE {<<i, Accumulate(Load(d, i, 0), SumTmp(o, s, i, TRUE, 0))>>}

\* the result of running the threads lo .. hi of a launch one after the other
RECURSIVE RunInOrder(_, _, _, _, _, _)
RunInOrder(k, o, s, d, lo, hi) ==
    IF lo > hi THEN d
    ELSE IF lo = hi THEN Store(d, ThreadStores(k, o, s, d, lo))
    ELSE LET mid == (lo + hi) \div 2
         IN  RunInOrder(k, o, s, RunInOrder(k, o, s, d, lo, mid), mid + 1, hi)

\* the result of one whole launch
RunLaunch(k, o, s, d) == RunInOrder(k, o, s, d, 0, GridDim(k, o) * BlockDim - 1)

\* batch slice b of filters_tr is (b + 2) times the transposed filters
ScaledTransposed(o) ==
    LET tr == RunLaunch("transpose_and_broadcast_filters", o, Ramp(FiltersNumel(o)),
                        Zeros(FiltersTrNumel(o)))
    IN  [j \in DOMAIN tr |-> (j \div FiltersNumel(o) + 2) * tr[j]]

Sources(k, o) ==
    {Ramp(SrcNumel(k, o))}
      \cup IF k = "sum_transposed_filters" THEN {ScaledTransposed(o)} ELSE {}

\* the extractors' callers zero the patches; a dirty buffer shows what is kept
Destinations(k, o) ==
    {Dirty(DstNumel(k, o))}
      \cup IF k \in {"unfold_input_into_patches", "unfold_output_into_patches"}
           THEN {Zeros(DstNumel(k, o))} ELSE {}

SmallOps ==
    {ValidOp(s, p, k, b, ci, co, h, w) :
        s \in 1 .. MaxStride, p \in 0 .. MaxPadding, k \in 1 .. MaxKernel,
        b \in 1 .. MaxBatch, ci \in 1 .. MaxChan, co \in 1 .. MaxChan,
        h \in 1 .. MaxDim, w \in 1 .. MaxDim}

NonEmpty(o) == o.h_out >= 1 /\ o.w_out >= 1
                 /\ o.h_in + 2 * o.padding >= o.kernel
                 /\ o.w_in + 2 * o.padding >= o.kernel

\* a kernel is launched on geometries that differ in the fields it reads: the
\* channel count an extractor does not read is the other one or 1, and the
\* filter kernels see stride 1, no padding and a single output position
Launched(o, k) ==
    CASE k = "unfold_input_into_patches" -> o.chan_out \in {o.chan_in, 1}
      [] k = "unfold_output_into_patches" -> o.chan_in \in {o.chan_out, 1}
      [] OTHER -> o.stride = 1 /\ o.padding = 0 /\ o.h_in = o.kernel /\ o.w_in = o.kernel

\* stride=1, padding=0, kernel=3, h_in=w_in=5
ExampleOp == ValidOp(1, 0, 3, 1, 1, 1, 5, 5)

InitWith(o, k, s, d, policy) ==
    /\ op = o
    /\ kernel = k
    /\ src = s
    /\ dst = d
    /\ pre = d
    /\ dst0 = d
    /\ calls = 1
    /\ sched = policy
    /\ pending = Threads(k, o)
    /\ inflight = {}
    /\ units = {}
    /\ active = {}
    /\ writers = [j \in DOMAIN d |-> {}]
    /\ readers = [j \in DOMAIN d |-> {}]
    /\ oob = {}

Init ==
    \E o \in SmallOps \cup {ExampleOp}, k \in Kernels :
        /\ NonEmpty(o)
        /\ \/ Launched(o, k) /\ Units(k, o) <= MaxUnits
           \/ o = ExampleOp /\ k = "unfold_input_into_patches"
        /\ \E s \in Sources(k, o), d \in Destinations(k, o) :
               InitWith(o, k, s, d, "inorder")

Spec == Init /\ [][Next]_vars

\* every interleaving of the threads, on launches of few units
InitRace ==
    \E o \in SmallOps, k \in Kernels :
        /\ NonEmpty(o)
        /\ Launched(o, k)
        /\ Units(k, o) <= MaxRaceUnits
        /\ \E s \in Sources(k, o), d \in Destinations(k, o) :
               InitWith(o, k, s, d, "any")

SpecRace == InitRace /\ [][Next]_vars

\* launches whose unit count, or batch count, does not fit the index type
WideOps ==
    {ValidOp(1, 0, 1, b, ci, 1, 1, 1) :
        b \in {1, IntMax + 2, UIntMod + 1}, ci \in {1, UIntMod + 1}}

InitWide ==
    \E o \in WideOps, k \in Kernels :
        /\ SrcNumel(k, o) <= 2 * UIntMod
        /\ DstNumel(k, o) <= 2 * UIntMod
        /\ \E d \in Destinations(k, o) :
               InitWith(o, k, Ramp(SrcNumel(k, o)), d, "inorder")

SpecWide == InitWide /\ [][Next]_vars

-----------------------------------------------------------------------------
(* Row-major flat indices of the tensors, as the shapes declare them *)

Flat4(d1, d2, d3, a0, a1, a2, a3) == ((a0 * d1 + a1) * d2 + a2) * d3 + a3
Flat5(d1, d2, d3, d4, a0, a1, a2, a3, a4) ==
    (((a0 * d1 + a1) * d2 + a2) * d3 + a3) * d4 + a4
Flat6(d1, d2, d3, d4, d5, a0, a1, a2, a3, a4, a5) ==
    ((((a0 * d1 + a1) * d2 + a2) * d3 + a3) * d4 + a4) * d5 + a5

Written == {j \in DOMAIN dst : writers[j] # {}}

-----------------------------------------------------------------------------
(* Claims *)

\* C1: after unfold_input_into_patches has run over all units, for every
\* coordinate (b, c, k1, k2, oh, ow) of the patches tensor the element equals
\* image[b, c, y, x] with y = oh*stride + k1 - padding, x = ow*stride + k2 -
\* padding when oh*stride + k1 >= padding, y < h_in, ow*stride + k2 >= padding
\* and x < w_in, and otherwise still holds its value from before the call.
\* For stride=1, padding=0, kernel=3, h_in=w_in=5: patches(0,0,0,0,0,0) =
\* image(0,0,0,0) and patches(0,0,2,2,2,2) = image(0,0,4,4).
C1_InputPatches ==
    (kernel = "unfold_input_into_patches" /\ Done) =>
        /\ \A b \in 0 .. (op.batch - 1), c \in 0 .. (op.chan_in - 1),
              k1 \in 0 .. (op.kernel - 1), k2 \in 0 .. (op.kernel - 1),
              oh \in 0 .. (op.h_out - 1), ow \in 0 .. (op.w_out - 1) :
              LET i == Flat6(op.chan_in, op.kernel, op.kernel, op.h_out, op.w_out,
                             b, c, k1, k2, oh, ow)
                  y == oh * op.stride + k1 - op.padding
                  x == ow * op.stride + k2 - op.padding
              IN  IF /\ oh * op.stride + k1 >= op.padding
                     /\ y < op.h_in
                     /\ ow * op.stride + k2 >= op.padding
                     /\ x < op.w_in
                  THEN dst[i] = src[Flat4(op.chan_in, op.h_in, op.w_in, b, c, y, x)]
                  ELSE dst[i] = pre[i]
        /\ op = ExampleOp =>
              /\ op.h_out = 3 /\ op.w_out = 3
              /\ dst[Flat6(1, 3, 3, 3, 3, 0, 0, 0, 0, 0, 0)] = src[Flat4(1, 5, 5, 0, 0, 0, 0)]
              /\ dst[Flat6(1, 3, 3, 3, 3, 0, 0, 2, 2, 2, 2)] = src[Flat4(1, 5, 5, 0, 0, 4, 4)]

\* a padded, strided launch on a dirty buffer has finished; some elements were
\* copied from the image and some kept their old non-zero value
C1_Witness ==
    /\ kernel = "unfold_input_into_patches" /\ Done
    /\ op.padding > 0 /\ op.stride > 1 /\ op.kernel > 1 /\ op.h_in # op.w_in
    /\ \E j \in DOMAIN dst : writers[j] # {} /\ dst[j] > 0
    /\ \E j \in DOMAIN dst : writers[j] = {} /\ dst[j] = pre[j] /\ dst[j] < 0

\* C2: unfold_output_into_patches writes patches[b,o,k1,k2,y,x] =
\* image_out[b,o,oh,ow], oh = (y + padding - k1)/stride, ow = (x + padding -
\* k2)/stride, if and only if y + padding >= k1, stride divides y + padding -
\* k1, oh < h_out and the same three for x, k2, w_out; if any guard fails the
\* element is not written and keeps its value from before the call.
C2_OutputPatches ==
    (kernel = "unfold_output_into_patches" /\ Done) =>
        \A b \in 0 .. (op.batch - 1), o \in 0 .. (op.chan_out - 1),
           k1 \in 0 .. (op.kernel - 1), k2 \in 0 .. (op.kernel - 1),
           y \in 0 .. (op.h_in - 1), x \in 0 .. (op.w_in - 1) :
           LET i == Flat6(op.chan_out, op.kernel, op.kernel, op.h_in, op.w_in,
                          b, o, k1, k2, y, x)
               oh == (y + op.padding - k1) \div op.stride
               ow == (x + op.padding - k2) \div op.stride
           IN  IF /\ y + op.padding >= k1
                  /\ (y + op.padding - k1) % op.stride = 0
                  /\ oh < op.h_out
                  /\ x + op.padding >= k2
                  /\ (x + op.padding - k2) % op.stride = 0
                  /\ ow < op.w_out
               THEN /\ writers[i] # {}
                    /\ dst[i] = src[Flat4(op.chan_out, op.h_out, op.w_out, b, o, oh, ow)]
               ELSE /\ writers[i] = {}
                    /\ dst[i] = pre[i]

\* a strided launch has finished in which a misaligned tap was skipped, a
\* tap underflowed and a tap was copied
C2_Witness ==
    /\ kernel = "unfold_output_into_patches" /\ Done
    /\ op.stride > 1 /\ op.h_in # op.w_in
    /\ \E j \in DOMAIN dst : writers[j] # {} /\ dst[j] > 0
    /\ \E j \in DOMAIN dst :
          LET q == UnfoldOutputCoords(op, j)
          IN  /\ q.y + op.padding >= q.k1
              /\ (q.y + op.padding - q.k1) % op.stride # 0
              /\ dst[j] = pre[j] /\ dst[j] < 0
    /\ \E j \in DOMAIN dst :
          UnfoldOutputCoords(op, j).y + op.padding < UnfoldOutputCoords(op, j).k1

\* C3: after transpose_and_broadcast_filters has run over all units,
\* filters_tr[b,c,o,k1,k2] = filters[o,c,k1,k2] for every b, c, o, k1, k2;
\* every element of filters_tr has been written, whatever it held before, and
\* any two batch slices are equal.
C3_TransposeBroadcast ==
    (kernel = "transpose_and_broadcast_filters" /\ Done) =>
        /\ \A b \in 0 .. (op.batch - 1), c \in 0 .. (op.chan_in - 1),
              o \in 0 .. (op.chan_out - 1),
              k1 \in 0 .. (op.kernel - 1), k2 \in 0 .. (op.kernel - 1) :
              LET j == Flat5(op.chan_in, op.chan_out, op.kernel, op.kernel,
                             b, c, o, k1, k2)
              IN  /\ dst[j] = src[Flat4(op.chan_in, op.kernel, op.kernel, o, c, k1, k2)]
                  /\ writers[j] # {}
        /\ \A b1, b2 \in 0 .. (op.batch - 1) :
              \A r \in 0 .. (FiltersNumel(op) - 1) :
                  dst[b1 * FiltersNumel(op) + r] = dst[b2 * FiltersNumel(op) + r]
        /\ DOMAIN dst = 0 .. (op.batch * op.chan_in * op.chan_out * op.kernel * op.kernel - 1)

\* a launch with several batches and different channel counts has finished on
\* a dirty destination
C3_Witness ==
    /\ kernel = "transpose_and_broadcast_filters" /\ Done
    /\ op.batch > 1 /\ op.chan_in > op.chan_out /\ op.kernel > 1
    /\ pre = Dirty(FiltersTrNumel(op))
    /\ dst # pre

\* f[0] + ... + f[n-1]
RECURSIVE SumTo(_, _)
SumTo(f, n) == IF n = 0 THEN 0 ELSE f[n - 1] + SumTo(f, n - 1)

\* C4: sum_transposed_filters adds into filters: after a call, filters[o,c,k1,k2]
\* is its value before the call plus the sum over b of filters_tr[b,c,o,k1,k2],
\* and filters_tr is never changed.  After n calls the element is its initial
\* value plus n times that sum, and when batch slice b of filters_tr is m_b
\* times the transposed, broadcast F, each call adds the sum over b of
\* m_b * F[o,c,k1,k2].
C4_AddIntoState ==
    (kernel = "sum_transposed_filters" /\ Done) =>
        \A o \in 0 .. (op.chan_out - 1), c \in 0 .. (op.chan_in - 1),
           k1 \in 0 .. (op.kernel - 1), k2 \in 0 .. (op.kernel - 1) :
           LET i == Flat4(op.chan_in, op.kernel, op.kernel, o, c, k1, k2)
               batchSum == SumTo([b \in 0 .. (op.batch - 1) |->
                                    src[Flat5(op.chan_in, op.chan_out, op.kernel,
                                              op.kernel, b, c, o, k1, k2)]],
                                 op.batch)
               scaledSum == SumTo([b \in 0 .. (op.batch - 1) |->
                                     (b + 2) * Ramp(FiltersNumel(op))[i]],
                                  op.batch)
           IN  /\ dst[i] = pre[i] + batchSum
               /\ dst[i] = dst0[i] + calls * batchSum
               /\ src = ScaledTransposed(op) => batchSum = scaledSum

C4_AddInto == [](C4_AddIntoState) /\ [][src' = src]_vars

\* the second call on a dirty filters buffer has finished, with a source
\* whose batch slices are distinct multiples of the transposed filters
C4_Witness ==
    /\ kernel = "sum_transposed_filters" /\ Done
    /\ calls = 2 /\ op.batch > 1 /\ op.chan_in # op.chan_out /\ op.kernel > 1
    /\ src = ScaledTransposed(op)
    /\ dst0 = Dirty(FiltersNumel(op))
    /\ dst # pre

\* C5: for every (b, c, k1, k2, oh, ow) at which unfold_input_into_patches has
\* written, with y = oh*stride + k1 - padding and x = ow*stride + k2 - padding,
\* the guards of unfold_output_into_patches at (k1, k2, y, x) all pass and
\* the output coordinate they derive is (oh, ow).
C5_ForwardDuality ==
    (kernel = "unfold_input_into_patches" /\ Done) =>
        \A b \in 0 .. (op.batch - 1), c \in 0 .. (op.chan_in - 1),
           k1 \in 0 .. (op.kernel - 1), k2 \in 0 .. (op.kernel - 1),
           oh \in 0 .. (op.h_out - 1), ow \in 0 .. (op.w_out - 1) :
           LET i == Flat6(op.chan_in, op.kernel, op.kernel, op.h_out, op.w_out,
                          b, c, k1, k2, oh, ow)
               y == oh * op.stride + k1 - op.padding
               x == ow * op.stride + k2 - op.padding
           IN  writers[i] # {} =>
                  /\ OutputOh(op, y, k1) = oh
                  /\ OutputOw(op, x, k2) = ow
                  /\ c < op.chan_out =>
                        UnfoldOutputSource(op,
                            Flat6(op.chan_out, op.kernel, op.kernel, op.h_in, op.w_in,
                                  b, c, k1, k2, y, x))
                          = Flat4(op.chan_out, op.h_out, op.w_out, b, c, oh, ow)

\* a padded, strided launch has finished and wrote a tap of an output row and
\* column other than the first
C5_Witness ==
    /\ kernel = "unfold_input_into_patches" /\ Done
    /\ op.stride > 1 /\ op.padding > 0 /\ op.kernel > 1
    /\ \E j \in Written :
          UnfoldInputCoords(op, j).oh > 0 /\ UnfoldInputCoords(op, j).ow > 0

Extractors == {"unfold_input_into_patches", "unfold_output_into_patches"}

\* C6: neither extractor reads outside its image nor writes outside its patches
\* tensor, for any geometry and any launch, and a thread whose index is at or
\* above the patches element count reads and writes nothing.
C6_NoOutOfBounds ==
    kernel \in Extractors =>
        /\ oob = {}
        /\ \A t \in active : Index(t) < DstNumel(kernel, op)
        /\ \A j \in DOMAIN dst : \A t \in writers[j] : j < DstNumel(kernel, op)

\* an extractor launched with more threads than elements has finished, with
\* padding >= kernel > stride
C6_Witness ==
    /\ kernel = "unfold_output_into_patches" /\ Done
    /\ Cardinality(Threads(kernel, op)) > DstNumel(kernel, op)
    /\ op.padding >= op.kernel /\ op.kernel > op.stride
    /\ active # {}

\* some tap of unfold_output_into_patches fails a guard
BackwardSkips(o) ==
    \/ o.kernel > o.padding + 1
    \/ \E y \in 0 .. (o.h_in - 1), k1 \in 0 .. (o.kernel - 1) :
          y + o.padding >= k1 /\ (y + o.padding - k1) % o.stride # 0
    \/ \E x \in 0 .. (o.w_in - 1), k2 \in 0 .. (o.kernel - 1) :
          x + o.padding >= k2 /\ (x + o.padding - k2) % o.stride # 0

SomeElementLeftZero == \E j \in DOMAIN dst : writers[j] = {} /\ dst[j] = 0

\* C7 as stated: for padding > 0, after either extractor has run over a
\* zero-initialized patches tensor at least one element has not been written
\* and is still zero.
C7_ZeroFillRespect ==
    (kernel \in Extractors /\ Done /\ op.padding > 0 /\ pre = Zeros(DstNumel(kernel, op)))
        => SomeElementLeftZero

\* C7 amended: for padding > 0, unfold_input_into_patches always leaves an
\* element of a zero-initialized patches tensor unwritten and zero;
\* unfold_output_into_patches does so exactly when kernel > padding + 1 or
\* some tap offset y + padding - k1 (x + padding - k2) is not a multiple of
\* stride, and otherwise writes every element.
C7_ZeroFillAmended ==
    (kernel \in Extractors /\ Done /\ op.padding > 0 /\ pre = Zeros(DstNumel(kernel, op)))
        => /\ kernel = "unfold_input_into_patches" => SomeElementLeftZero
           /\ kernel = "unfold_output_into_patches" =>
                 (SomeElementLeftZero <=> BackwardSkips(op))

\* a padded unfold_input_into_patches launch on a zeroed buffer has finished,
\* leaving border taps unwritten next to written ones
C7_Witness ==
    /\ kernel = "unfold_input_into_patches" /\ Done
    /\ op.padding > 0 /\ pre = Zeros(DstNumel(kernel, op))
    /\ SomeElementLeftZero
    /\ Written # {}

\* C8: within one launch no destination element is written by two threads or
\* read by a thread other than its writer; the extractors and
\* sum_transposed_filters touch only element i in thread i, and
\* transpose_and_broadcast_filters maps i to i_tr one-to-one onto the units,
\* so the result of a launch is that of running its threads one by one,
\* whatever the interleaving.
C8_RaceFree ==
    /\ \A j \in DOMAIN dst :
          /\ Cardinality(writers[j]) <= 1
          /\ \A r \in readers[j], w \in writers[j] : r = w
    /\ oob = {}
    /\ kernel # "transpose_and_broadcast_filters" =>
          \A j \in DOMAIN dst : \A t \in writers[j] \cup readers[j] : Index(t) = j
    /\ kernel = "transpose_and_broadcast_filters" =>
          /\ \A i1, i2 \in 0 .. (FiltersNumel(op) - 1) :
                TransposedIndex(op, i1) = TransposedIndex(op, i2) => i1 = i2
          /\ \A i \in 0 .. (FiltersNumel(op) - 1) :
                TransposedIndex(op, i) \in 0 .. (FiltersNumel(op) - 1)
          /\ \A j \in DOMAIN dst : \A t \in writers[j] :
                j % FiltersNumel(op) = TransposedIndex(op, Index(t))
    /\ Done => dst = RunLaunch(kernel, op, src, pre)

\* two threads of sum_transposed_filters are between their load and their
\* store while a third has already stored
C8_Witness ==
    /\ kernel = "sum_transposed_filters"
    /\ Cardinality(inflight) >= 2
    /\ Written # {}
    /\ op.chan_in > 1 /\ op.chan_out > 1

\* C9: thread indices do not wrap: when a launch has finished, every
\* destination index below the element count of the kernel has been the index
\* i of some thread of the launch.
C9_IndexWidth ==
    Done => \A j \in 0 .. (Units(kernel, op) - 1) : j \in units

\* C10: wherever unfold_output_into_patches has written, at (k1, k2, y, x) with
\* derived (oh, ow), the guards of unfold_input_into_patches at (k1, k2, oh, ow)
\* pass and give the source position (y, x); with equal channel counts both
\* extractors write the same number of elements.
C10_ConverseDuality ==
    (kernel = "unfold_output_into_patches" /\ Done) =>
        /\ \A b \in 0 .. (op.batch - 1), o \in 0 .. (op.chan_out - 1),
              k1 \in 0 .. (op.kernel - 1), k2 \in 0 .. (op.kernel - 1),
              y \in 0 .. (op.h_in - 1), x \in 0 .. (op.w_in - 1) :
              LET i == Flat6(op.chan_out, op.kernel, op.kernel, op.h_in, op.w_in,
                             b, o, k1, k2, y, x)
                  oh == OutputOh(op, y, k1)
                  ow == OutputOw(op, x, k2)
              IN  writers[i] # {} =>
                     /\ oh # Skip /\ ow # Skip
                     /\ InputY(op, oh, k1) = y
                     /\ InputX(op, ow, k2) = x
                     /\ o < op.chan_in =>
                           UnfoldInputSource(op,
                               Flat6(op.chan_in, op.kernel, op.kernel, op.h_out, op.w_out,
                                     b, o, k1, k2, oh, ow))
                             = Flat4(op.chan_in, op.h_in, op.w_in, b, o, y, x)
        /\ op.chan_in = op.chan_out =>
              Cardinality(Written)
                = Cardinality({i \in 0 .. (InputPatchesNumel(op) - 1) :
                                  UnfoldInputSource(op, i) # Skip})

\* a padded, strided unfold_output_into_patches launch with equal channel
\* counts has finished and wrote taps of several image rows and columns
C10_Witness ==
    /\ kernel = "unfold_output_into_patches" /\ Done
    /\ op.chan_in = op.chan_out /\ op.stride > 1 /\ op.padding > 0 /\ op.kernel > 1
    /\ \E j \in Written :
          UnfoldOutputCoords(op, j).y > 0 /\ UnfoldOutputCoords(op, j).x > 0

====
